---- MODULE Spec2Model ----
(***************************************************************************)
(* Fonterator (src/src/lib.rs): font collections, the horizontal layout    *)
(* iterator and the outline-to-path converter, as state machines.          *)
(*                                                                         *)
(* The font-table accessor (crate stb_truetype) and the Unicode            *)
(* normaliser are external collaborators.  They are modelled by what       *)
(* lib.rs consumes from them: a buffer is the abstract content the         *)
(* accessor reads from it, a font is the tables the accessor returns.      *)
(* f32 values are modelled by integers; every scale of the model is a      *)
(* positive integer, so that the arithmetic of lib.rs is exact.            *)
(***************************************************************************)
EXTENDS Integers, Sequences, FiniteSets, TLC

VARIABLES
    bytes,      \* the byte buffer handed to FontCollection::new / Font::new
    cpc,        \* collection life cycle: "idle", "start", "coll", "done"
    res,        \* result of the last collection operation
    font,       \* the Font the layout iterator borrows (accessor tables)
    kernAlt,    \* a second kerning table, differing from font.kern in one pair
    text,       \* the text given to Font::glyphs
    it,         \* GlyphIterator: api_scale, scale, string, cursor, last
    ipc,        \* iterator life cycle: "idle", "start", "active", "panic"
    out,        \* the (glyph, advance) pairs yielded so far
    outAlt,     \* the advances the same steps yield under kernAlt
    kernLog,    \* the kerning lookups made so far, as <<first, second>>
    lastRet,    \* what the last call of next returned: "none", "Some", "None"
    glyph,      \* the Glyph given to draw: id, v, shape, ascent
    dpc,        \* draw life cycle: "idle", "start", "done"
    drawn       \* result of the last draw call

vars == <<bytes, cpc, res, font, kernAlt, text, it, ipc, out, outAlt,
          kernLog, lastRet, glyph, dpc, drawn>>

\* ---------------------------------------------------------------- bounds

\* Largest number of fonts in a collection directory.
MaxFonts == 2

Range(s) == {s[i] : i \in DOMAIN s}

SeqsUpTo(S, n) == UNION {[1..k -> S] : k \in 0..n}

\* Option<T>
None == [some |-> FALSE, v |-> 0]

Some(x) == [some |-> TRUE, v |-> x]

\* ------------------------------------------------- shared byte buffers

\* b"ttcf"
TtcfTag == <<116, 116, 99, 102>>

\* The four signatures tt::is_font accepts: "1\0\0\0", "typ1", "OTTO", "\0\1\0\0".
FontSignatures ==
    {<<49, 0, 0, 0>>, <<116, 121, 112, 49>>, <<79, 84, 84, 79>>, <<0, 1, 0, 0>>}

\* The first (up to four) bytes of the buffers of the model; a head shorter
\* than four bytes is a buffer shorter than four bytes.
Heads ==
    {<<>>, <<116>>, <<0, 1, 0>>, <<116, 116, 99>>,
     <<0, 1, 0, 0>>, <<79, 84, 84, 79>>, TtcfTag,
     <<116, 116, 99, 120>>, <<0, 0, 1, 0>>}

\* Table offsets a collection directory can name.
Offsets == {12, 16}

\* A buffer: its head, and what the accessor reads behind it: whether the
\* collection header's version is one it knows, the directory of font
\* offsets, and the offsets at which a font's tables can be read.
Buffers ==
    [head : Heads, ver : BOOLEAN, dir : SeqsUpTo(Offsets, MaxFonts),
     tables : SUBSET ({0} \cup Offsets)]

\* A buffer shorter than four bytes carries no header, directory or tables.
WellSized(b) ==
    Len(b.head) < 4 => (b.dir = <<>> /\ b.tables = {} /\ ~b.ver)

\* tt::is_font: the buffer starts with a single-font signature.
is_font(b) == Len(b.head) >= 4 /\ b.head \in FontSignatures

\* tt::get_font_offset_for_index: index 0 of a single font is offset 0; a
\* collection with a known header version answers from its directory.
get_font_offset_for_index(b, i) ==
    IF is_font(b)
    THEN (IF i = 0 THEN Some(0) ELSE None)
    ELSE IF Len(b.head) >= 4 /\ b.head = TtcfTag /\ b.ver
         THEN (IF i >= Len(b.dir) THEN None ELSE Some(b.dir[i + 1]))
         ELSE None

\* tt::FontInfo::new(bytes, offset): the accessor, or None when it rejects
\* the tables at the offset.
FontInfo_new(b, off) ==
    IF off \in b.tables THEN Some([offset |-> off]) ELSE None

\* ------------------------------------------------------- results

Ok(fs) == [kind |-> "Ok", err |-> "none", fonts |-> fs]

Err(e) == [kind |-> "Err", err |-> e, fonts |-> <<>>]

\* The call did not return: an index out of range, a failed unwrap or assert.
Panic(why) == [kind |-> "Panic", err |-> why, fonts |-> <<>>]

\* ------------------------------------------------- FontCollection

\* The slice &bytes[0..4] of FontCollection::new: in range or not.
SliceInRange(b) == Len(b.head) >= 4

FontCollection_new(b) ==
    IF is_font(b)
    THEN Ok(<<>>)
    ELSE IF ~SliceInRange(b)
         THEN Panic("slice index")
         ELSE IF b.head # TtcfTag
              THEN Err("UnrecognizedFormat")
              ELSE Ok(<<>>)

\* into_font probes the offset of index 0 where the code probes index 1.
HasSecondFont_Probes0(b) == get_font_offset_for_index(b, 0).some

\* The probe of into_font for a second font: the offset lookup of index 1.
HasSecondFont(b) == get_font_offset_for_index(b, 1).some

into_font(b) ==
    LET build(off) ==
            IF FontInfo_new(b, off).some
            THEN Ok(<<FontInfo_new(b, off).v>>)
            ELSE Err("IllFormed")
    IN  IF is_font(b)
        THEN build(0)
        ELSE IF HasSecondFont(b)
             THEN Err("CollectionContainsMultipleFonts")
             ELSE IF ~get_font_offset_for_index(b, 0).some
                  THEN Err("IllFormed")
                  ELSE build(get_font_offset_for_index(b, 0).v)

font_at(b, i) ==
    IF ~get_font_offset_for_index(b, i).some
    THEN Err("CollectionIndexOutOfBounds")
    ELSE IF FontInfo_new(b, get_font_offset_for_index(b, i).v).some
         THEN Ok(<<FontInfo_new(b, get_font_offset_for_index(b, i).v).v>>)
         ELSE Err("IllFormed")

\* The loop of into_fonts from `index` on, with `fonts` collected so far.
\* result.unwrap() panics on every Err that did not break the loop.
RECURSIVE into_fonts_loop(_, _, _)
into_fonts_loop(b, index, fonts) ==
    LET result == font_at(b, index)
    IN  IF result.kind = "Err" /\ result.err = "CollectionIndexOutOfBounds"
        THEN Ok(fonts)
        ELSE IF result.kind # "Ok"
             THEN Panic("unwrap")
             ELSE into_fonts_loop(b, index + 1, fonts \o result.fonts)

into_fonts(b) == into_fonts_loop(b, 0, <<>>)

\* Font::new: FontCollection::new(bytes).and_then(|c| c.into_font())
Font_new(b) ==
    IF FontCollection_new(b).kind = "Ok" THEN into_font(b) ELSE FontCollection_new(b)

Call(op, arg, r) == [op |-> op, arg |-> arg, r |-> r]

NoCall == Call("none", 0, Ok(<<>>))

InitColl ==
    /\ bytes \in {b \in Buffers : WellSized(b)}
    /\ cpc = "start"
    /\ res = NoCall

CallNew ==
    /\ UNCHANGED <<font, kernAlt, text, it, ipc, out, outAlt, kernLog, lastRet>>
    /\ UNCHANGED <<glyph, dpc, drawn>>
    /\ cpc = "start"
    /\ res' = Call("new", 0, FontCollection_new(bytes))
    /\ cpc' = IF FontCollection_new(bytes).kind = "Ok" THEN "coll" ELSE "done"
    /\ UNCHANGED bytes

CallFontNew ==
    /\ UNCHANGED <<font, kernAlt, text, it, ipc, out, outAlt, kernLog, lastRet>>
    /\ UNCHANGED <<glyph, dpc, drawn>>
    /\ cpc = "start"
    /\ res' = Call("Font::new", 0, Font_new(bytes))
    /\ cpc' = "done"
    /\ UNCHANGED bytes

\* font_at borrows the collection, which stays usable.
CallFontAt ==
    /\ UNCHANGED <<font, kernAlt, text, it, ipc, out, outAlt, kernLog, lastRet>>
    /\ UNCHANGED <<glyph, dpc, drawn>>
    /\ cpc = "coll"
    /\ \E i \in 0..MaxFonts : res' = Call("font_at", i, font_at(bytes, i))
    /\ UNCHANGED <<bytes, cpc>>

\* into_font and into_fonts consume the collection.
CallIntoFont ==
    /\ UNCHANGED <<font, kernAlt, text, it, ipc, out, outAlt, kernLog, lastRet>>
    /\ UNCHANGED <<glyph, dpc, drawn>>
    /\ cpc = "coll"
    /\ res' = Call("into_font", 0, into_font(bytes))
    /\ cpc' = "done"
    /\ UNCHANGED bytes

CallIntoFonts ==
    /\ UNCHANGED <<font, kernAlt, text, it, ipc, out, outAlt, kernLog, lastRet>>
    /\ UNCHANGED <<glyph, dpc, drawn>>
    /\ cpc = "coll"
    /\ res' = Call("into_fonts", 0, into_fonts(bytes))
    /\ cpc' = "done"
    /\ UNCHANGED bytes

NextColl ==
    \/ CallNew
    \/ CallFontNew
    \/ CallFontAt
    \/ CallIntoFont
    \/ CallIntoFonts

\* ------------------------------------------------------------- Font

\* Longest text given to Font::glyphs.
MaxLen == 3

\* Characters: 1 is "e", 2 is the combining acute accent U+0301, 3 is the
\* precomposed e-acute U+00E9, 4 is "x".
Chars == 1..4

\* Glyph identifiers the tables of the model mention; a font holds the
\* identifiers below its num_glyphs.
Gids == 0..3

\* Canonical composition (unicode_normalization's nfc): the pair "e",
\* U+0301 composes to U+00E9, every other character is kept.
RECURSIVE nfc(_)
nfc(s) ==
    IF s = <<>>
    THEN <<>>
    ELSE IF Len(s) >= 2 /\ s[1] = 1 /\ s[2] = 2
         THEN <<3>> \o nfc(SubSeq(s, 3, Len(s)))
         ELSE <<s[1]>> \o nfc(Tail(s))

\* The character map of a font whose every character has a glyph, and of
\* one whose map names an identifier its glyph table does not hold (the
\* tables of a font are not validated).
Cmaps == {[c \in Chars |-> c % 3], [c \in Chars |-> c - 1]}

\* The tables of a font as the accessor returns them: get_num_glyphs,
\* find_glyph_index, get_glyph_h_metrics().advance_width,
\* get_glyph_kern_advance, and the height scale_for_pixel_height divides by.
Fonts ==
    [num_glyphs : {3}, cmap : Cmaps,
     adv : {[g \in Gids |-> 10 + 3 * g]},
     kern : {[p \in Gids \X Gids |-> 2 * p[1] - 3 * p[2] + 1]},
     fheight : {4}]

\* The pixel scales (x, y) given to glyphs.
ApiScales == {<<4, 4>>, <<8, 4>>, <<8, 8>>}

\* info.scale_for_pixel_height(height)
scale_for_pixel_height(F, h) == h \div F.fheight

\* Font::glyph_count
glyph_count(F) == F.num_glyphs

\* Glyph { inner: GlyphInner(font, id), v }
Glyph(gid, v) == [id |-> gid, v |-> v]

NoGlyph == [some |-> FALSE, v |-> Glyph(0, <<0, 0>>)]

\* The bound check of Font::glyph, off by one.
GlyphIdInRange_OffByOne(F, gid) == gid <= glyph_count(F)

\* assert!((gid.0 as usize) < self.glyph_count())
GlyphIdInRange(F, gid) == gid < glyph_count(F)

\* Font::glyph for an identifier already resolved (IntoGlyphId for GlyphId):
\* the glyph, or none when the assertion fails and the call aborts.
Font_glyph(F, gid, v) ==
    IF GlyphIdInRange(F, gid) THEN Some(Glyph(gid, v)) ELSE NoGlyph

\* IntoGlyphId for char: font.info.find_glyph_index(c as u32)
into_glyph_id(F, c) == F.cmap[c]

\* The factor of pair_kerning: scale_for_pixel_height(scale.1) * (scale.0 / scale.1)
KerningFactor(F, scale) ==
    scale_for_pixel_height(F, scale[2]) * (scale[1] \div scale[2])

\* pair_kerning looks the pair up in the order (second, first).
KernAdvance_Swapped(F, first, second) == F.kern[<<second, first>>]

\* info.get_glyph_kern_advance(first.id().0, second.id().0)
KernAdvance(F, first, second) == F.kern[<<first, second>>]

\* Font::pair_kerning (reached through Font::kerning with the identifiers of
\* two glyphs): both identifiers are resolved by Font::glyph again, then
\* factor * kern.  ok is FALSE when one of the assertions fails.
pair_kerning(F, scale, v, first, second) ==
    IF Font_glyph(F, first, v).some /\ Font_glyph(F, second, v).some
    THEN [ok |-> TRUE,
          value |-> KerningFactor(F, scale) * KernAdvance(F, first, second)]
    ELSE [ok |-> FALSE, value |-> 0]

\* Font::glyphs: the scale factors, the normalised text, cursor 0, no last.
Font_glyphs(F, t, scale) ==
    LET scale_y == scale_for_pixel_height(F, scale[2])
        scale_x == (scale_y * scale[1]) \div scale[2]
    IN  [api_scale |-> scale, scale |-> <<scale_x, scale_y>>,
         string |-> nfc(t), cursor |-> 0, last |-> NoGlyph]

\* ----------------------------------------------------- GlyphIterator

\* The advance of a glyph scaled by the vertical factor.
HAdvance_ScaleY(F, gid, scale) == F.adv[gid] * scale[2]

\* get_glyph_h_metrics(glyph.id().0).advance_width as f32 * self.scale.0
HAdvance(F, gid, scale) == F.adv[gid] * scale[1]

\* The cursor moves by two.
NextCursor_Skips(c) == c + 2

\* self.cursor += 1
NextCursor(c) == c + 1

\* self.last = Some(glyph.clone())
NextLast(old, g) == Some(g)

\* GlyphIterator::next on iterator state i over font F.  ret is "Some" with
\* the item, "None", or "Panic" (the assertion of Font::glyph failed);
\* lookups are the kerning-table lookups the call made.
GlyphIterator_next(F, i) ==
    LET quiet(ret) ==
            [ret |-> ret, it |-> i, item |-> [glyph |-> Glyph(0, <<0, 0>>), adv |-> 0],
             lookups |-> <<>>]
    IN  IF i.cursor + 1 > Len(i.string)
        THEN quiet("None")
        ELSE LET c == i.string[i.cursor + 1]
                 g == Font_glyph(F, into_glyph_id(F, c), i.scale)
             IN  IF ~g.some
                 THEN quiet("Panic")
                 ELSE LET base == HAdvance(F, g.v.id, i.scale)
                          k == pair_kerning(F, i.api_scale, i.scale, i.last.v.id, g.v.id)
                      IN  IF i.cursor # 0 /\ (~i.last.some \/ ~k.ok)
                          THEN quiet("Panic")
                          ELSE [ret |-> "Some",
                                it |-> [i EXCEPT !.last = NextLast(i.last, g.v),
                                                 !.cursor = NextCursor(i.cursor)],
                                item |-> [glyph |-> g.v,
                                          adv |-> IF i.cursor # 0
                                                  THEN base + k.value
                                                  ELSE base],
                                lookups |-> IF i.cursor # 0
                                            THEN <<(<<i.last.v.id, g.v.id>>)>>
                                            ELSE <<>>]

IdleIt == Font_glyphs(CHOOSE F \in Fonts : TRUE, <<>>, <<4, 4>>)

\* One pair of glyphs whose kerning value the second table changes.
KernChanged(F, a, b) == [F.kern EXCEPT ![<<a, b>>] = @ + 1]

InitLayout ==
    /\ font \in Fonts
    /\ \E a \in 0..2, b \in 0..2 : kernAlt = KernChanged(font, a, b)
    /\ text \in SeqsUpTo(Chars, MaxLen)
    /\ it = IdleIt
    /\ ipc = "start"
    /\ out = <<>>
    /\ outAlt = <<>>
    /\ kernLog = <<>>
    /\ lastRet = "none"

CallGlyphs ==
    /\ UNCHANGED <<bytes, cpc, res>>
    /\ UNCHANGED <<glyph, dpc, drawn>>
    /\ ipc = "start"
    /\ \E scale \in ApiScales : it' = Font_glyphs(font, text, scale)
    /\ ipc' = "active"
    /\ UNCHANGED <<font, kernAlt, text, out, outAlt, kernLog, lastRet>>

\* One call of next, on the iterator and, in step with it, on an iterator
\* over the same font with the kerning table kernAlt.
CallNext ==
    /\ UNCHANGED <<bytes, cpc, res>>
    /\ UNCHANGED <<glyph, dpc, drawn>>
    /\ ipc = "active"
    /\ LET r == GlyphIterator_next(font, it)
           rAlt == GlyphIterator_next([font EXCEPT !.kern = kernAlt], it)
       IN  /\ it' = r.it
           /\ lastRet' = r.ret
           /\ ipc' = IF r.ret = "Panic" THEN "panic" ELSE "active"
           /\ out' = IF r.ret = "Some" THEN Append(out, r.item) ELSE out
           /\ outAlt' = IF r.ret = "Some" THEN Append(outAlt, rAlt.item.adv) ELSE outAlt
           /\ kernLog' = kernLog \o r.lookups
    /\ UNCHANGED <<font, kernAlt, text>>

NextLayout ==
    \/ CallGlyphs
    \/ CallNext

\* ------------------------------------------------------ Glyph::draw

\* Longest outline (in vertices) of a glyph.
MaxVerts == 4

\* stb_truetype's Vertex: vertex_type(), x, y, cx, cy, each coordinate an i16.
Vertex(t, x, y, cx, cy) == [type |-> t, x |-> x, y |-> y, cx |-> cx, cy |-> cy]

\* The vertices of the model's outlines; -32768 and 32767 are the ends of
\* the i16 domain.
Vertices ==
    {Vertex("MoveTo", 0, 0, 0, 0),
     Vertex("MoveTo", 10, 10, 0, 0),
     Vertex("LineTo", 10, 0, 0, 0),
     Vertex("LineTo", 10, 10, 0, 0),
     Vertex("LineTo", 0, 0, 0, 0),
     Vertex("LineTo", 32767, -32768, 0, 0),
     Vertex("CurveTo", 0, 0, 5, 5),
     Vertex("CurveTo", 10, 10, -32768, -32768)}

\* The outlines the accessor builds: every contour, so every outline that
\* is not empty, starts with a MoveTo vertex.
Outlines ==
    {<<>>} \cup {<<m>> \o s : m \in {v \in Vertices : v.type = "MoveTo"},
                              s \in SeqsUpTo(Vertices, MaxVerts - 1)}

\* What get_glyph_shape returns: no outline, or a list of vertices.
Shapes == {None} \cup {Some(s) : s \in Outlines}

\* The glyphs given to draw: the scale v, the outline of the glyph in its
\* font, and the font's ascent (get_v_metrics().ascent).
DrawGlyphs == [v : {<<1, 1>>, <<2, 1>>}, shape : Shapes, ascent : {3}]

\* The origins given to draw.
PointXs == {0, 5}

PointYs == {-3, 0}

\* How the build treats integer overflow: a debug build aborts, a release
\* build wraps.
Builds == {"debug", "release"}

\* PathOp
PathOp(op, x, y, cx, cy) == [op |-> op, x |-> x, y |-> y, cx |-> cx, cy |-> cy]

\* -a for an i16 a, as written in `-v.y as f32`: the negation is
\* taken in i16, before the conversion.  ok is FALSE when the build aborts.
NegI16(a, build) ==
    IF a = -32768
    THEN [ok |-> build = "release", v |-> -32768]
    ELSE [ok |-> TRUE, v |-> -a]

\* Font::v_metrics: ascent as f32 * scale.1
v_metrics(g) == g.ascent * g.v[2]

\* v.x as f32 * self.v.0 + point_x
DeviceX(g, x, point_x) == x * g.v[1] + point_x

\* -v.y as f32 * self.v.1 + point_y
DeviceY(g, y, point_y, build) == NegI16(y, build).v * g.v[2] + point_y

\* The close test that compares the x coordinates alone.
AtOrigin_XOnly(x, y, origin) == x = origin[1]

\* x == origin.0 && y == origin.1
AtOrigin(x, y, origin) == x = origin[1] /\ y = origin[2]

\* The path operation draw pushes for vertex v, with `origin` the running
\* origin and point_y already moved to the baseline.
DrawVertex(g, v, point_x, point_y, build, origin) ==
    LET x == DeviceX(g, v.x, point_x)
        y == DeviceY(g, v.y, point_y, build)
        cx == DeviceX(g, v.cx, point_x)
        cy == DeviceY(g, v.cy, point_y, build)
    IN  CASE v.type = "LineTo" ->
                IF AtOrigin(x, y, origin)
                THEN PathOp("LineClose", 0, 0, 0, 0)
                ELSE PathOp("LineTo", x, y, 0, 0)
          [] v.type = "CurveTo" ->
                IF AtOrigin(x, y, origin)
                THEN PathOp("QuadClose", 0, 0, cx, cy)
                ELSE PathOp("QuadTo", x, y, cx, cy)
          [] OTHER -> PathOp("MoveTo", x, y, 0, 0)

\* Whether the negations draw makes for vertex v abort.
VertexAborts(v, build) ==
    \/ ~NegI16(v.y, build).ok
    \/ v.type = "CurveTo" /\ ~NegI16(v.cy, build).ok

\* The loop of draw over shape[k..], with the running origin and the path
\* pushed so far.
RECURSIVE draw_loop(_, _, _, _, _, _, _, _)
draw_loop(g, shape, point_x, point_y, build, k, origin, path) ==
    IF k > Len(shape)
    THEN [status |-> "ok", path |-> path]
    ELSE IF VertexAborts(shape[k], build)
         THEN [status |-> "panic", path |-> <<>>]
         ELSE LET op == DrawVertex(g, shape[k], point_x, point_y, build, origin)
              IN  draw_loop(g, shape, point_x, point_y, build, k + 1,
                            IF op.op = "MoveTo" THEN <<op.x, op.y>> ELSE origin,
                            Append(path, op))

\* get_glyph_shape(id).unwrap_or_else(Vec::new)
ShapeOf(g) == IF g.shape.some THEN g.shape.v ELSE <<>>

\* Glyph::draw(point_x, point_y)
draw(g, point_x, point_y, build) ==
    draw_loop(g, ShapeOf(g), point_x, point_y + v_metrics(g), build, 1,
              <<0, 0>>, <<>>)

NotDrawn == [point_x |-> 0, point_y |-> 0, build |-> "none", status |-> "none", path |-> <<>>]

InitDraw ==
    /\ glyph \in DrawGlyphs
    /\ dpc = "start"
    /\ drawn = NotDrawn

\* One call of draw on the glyph, at an origin, in one of the builds.
CallDraw ==
    /\ UNCHANGED <<bytes, cpc, res>>
    /\ UNCHANGED <<font, kernAlt, text, it, ipc, out, outAlt, kernLog, lastRet>>
    /\ dpc = "start"
    /\ \E point_x \in PointXs, point_y \in PointYs, build \in Builds :
         LET r == draw(glyph, point_x, point_y, build)
         IN  drawn' = [point_x |-> point_x, point_y |-> point_y, build |-> build,
                       status |-> r.status, path |-> r.path]
    /\ dpc' = "done"
    /\ UNCHANGED glyph

NextDraw ==
    \/ CallDraw

\* ------------------------------------------------- specifications

IdleColl ==
    /\ bytes = [head |-> <<>>, ver |-> FALSE, dir |-> <<>>, tables |-> {}]
    /\ cpc = "idle"
    /\ res = NoCall

IdleLayout ==
    /\ font = CHOOSE F \in Fonts : TRUE
    /\ kernAlt = font.kern
    /\ text = <<>>
    /\ it = IdleIt
    /\ ipc = "idle"
    /\ out = <<>>
    /\ outAlt = <<>>
    /\ kernLog = <<>>
    /\ lastRet = "none"

IdleDraw ==
    /\ glyph = [v |-> <<1, 1>>, shape |-> None, ascent |-> 3]
    /\ dpc = "idle"
    /\ drawn = NotDrawn

\* The collection operations on a buffer.
InitC == InitColl /\ IdleLayout /\ IdleDraw

SpecColl == InitC /\ [][NextColl]_vars

\* The layout iterator over a font and a text.
InitL == IdleColl /\ InitLayout /\ IdleDraw

SpecLayout == InitL /\ [][NextLayout]_vars

\* draw on a glyph.
InitD == IdleColl /\ IdleLayout /\ InitDraw

SpecDraw == InitD /\ [][NextDraw]_vars

Init == InitC \/ InitL \/ InitD

Next ==
    \/ CallNew
    \/ CallFontNew
    \/ CallFontAt
    \/ CallIntoFont
    \/ CallIntoFonts
    \/ CallGlyphs
    \/ CallNext
    \/ CallDraw

Spec == Init /\ [][Next]_vars

\* ------------------------------------------------- claims: collections

\* A buffer that matches neither a single-font signature nor the tag "ttcf".
Unrecognized(b) == b.head \notin FontSignatures /\ b.head # TtcfTag

\* C1: for every buffer, of any length, that matches neither signature,
\* FontCollection::new returns the error UnrecognizedFormat (no call on the
\* buffer aborts) and no operation, Font::new included, yields a Font.
C1_UnrecognizedIsError ==
    (Unrecognized(bytes) /\ res.op # "none") =>
        /\ res.r.kind # "Panic"
        /\ res.r.fonts = <<>>
        /\ res.op = "new" => res.r = Err("UnrecognizedFormat")

\* A collection whose directory the accessor reads and which names two fonts.
TwoFontCollection(b) == b.head = TtcfTag /\ b.ver /\ Len(b.dir) = 2

\* A single font whose tables the accessor accepts.
ValidSingleFont(b) == b.head \in FontSignatures /\ 0 \in b.tables

\* C2: into_font builds the font at offset 0 for a single font; otherwise
\* gives CollectionContainsMultipleFonts when the offset of index 1 exists;
\* otherwise IllFormed when the offset of index 0 is absent; otherwise builds
\* the font at the offset of index 0.  A build the accessor rejects gives
\* IllFormed.  A two-font collection gives CollectionContainsMultipleFonts,
\* a valid single font gives a Font.
C2_IntoFontOutcomes ==
    res.op = "into_font" =>
        LET o0 == get_font_offset_for_index(bytes, 0)
            o1 == get_font_offset_for_index(bytes, 1)
            single == bytes.head \in FontSignatures
            built(off) == IF off \in bytes.tables
                          THEN Ok(<<[offset |-> off]>>)
                          ELSE Err("IllFormed")
        IN  /\ single => res.r = built(0)
            /\ (~single /\ o1.some) => res.r = Err("CollectionContainsMultipleFonts")
            /\ (~single /\ ~o1.some /\ ~o0.some) => res.r = Err("IllFormed")
            /\ (~single /\ ~o1.some /\ o0.some) => res.r = built(o0.v)
            /\ TwoFontCollection(bytes) => res.r = Err("CollectionContainsMultipleFonts")
            /\ ValidSingleFont(bytes) => res.r = Ok(<<[offset |-> 0]>>)
            /\ res.r.kind # "Panic"

\* into_font gave the only font of a collection, at the offset its directory names.
C2_Witness ==
    /\ res.op = "into_font"
    /\ bytes.head = TtcfTag
    /\ res.r.kind = "Ok"
    /\ res.r.fonts = <<[offset |-> bytes.dir[1]]>>

\* The indices before the first one font_at reports out of bounds.
IndicesInBounds(b) ==
    {i \in 0..MaxFonts :
        \A j \in 0..i : font_at(b, j) # Err("CollectionIndexOutOfBounds")}

\* The valid fonts among font_at(lo), font_at(lo + 1), ..., font_at(hi).
RECURSIVE ValidFonts(_, _, _)
ValidFonts(b, lo, hi) ==
    IF lo > hi
    THEN <<>>
    ELSE font_at(b, lo).fonts \o ValidFonts(b, lo + 1, hi)

\* C3: into_fonts returns, in index order, the valid fonts font_at(i) for the
\* indices before the first CollectionIndexOutOfBounds; an index whose
\* font_at is IllFormed does not make it fail.  For a two-font collection
\* font_at(0) and font_at(1) succeed, font_at(2) is out of bounds and
\* into_fonts returns the two fonts in index order.
C3_IntoFontsCollectsValid ==
    /\ res.op = "into_fonts" =>
        /\ res.r.kind = "Ok"
        /\ res.r.fonts = ValidFonts(bytes, 0, Cardinality(IndicesInBounds(bytes)) - 1)
    /\ (res.op = "into_fonts" /\ TwoFontCollection(bytes)
            /\ Range(bytes.dir) \subseteq bytes.tables) =>
        /\ font_at(bytes, 0).kind = "Ok"
        /\ font_at(bytes, 1).kind = "Ok"
        /\ font_at(bytes, 2) = Err("CollectionIndexOutOfBounds")
        /\ res.r = Ok(<<[offset |-> bytes.dir[1]], [offset |-> bytes.dir[2]]>>)

\* ------------------------------------------------- claims: layout

\* The glyph identifier of the k-th normalised character.
IdAt(k) == font.cmap[it.string[k]]

\* scale_x of the spec: scale_for_pixel_height(y) * x / y.
ScaleX == (scale_for_pixel_height(font, it.api_scale[2]) * it.api_scale[1]) \div it.api_scale[2]

C4_State ==
    ipc \in {"active", "panic"} =>
        /\ it.string = nfc(text)
        /\ it.cursor \in 0..Len(it.string)
        /\ Len(out) = it.cursor
        /\ \A k \in 1..Len(out) : out[k].glyph.id = IdAt(k)
        /\ lastRet = "None" => (it.cursor = Len(it.string) /\ Len(out) = Len(it.string))

C4_Step ==
    /\ (ipc = "start" /\ ipc' = "active") => it'.cursor = 0
    /\ ipc = "active" =>
        /\ it'.cursor \in {it.cursor, it.cursor + 1}
        /\ lastRet' = "Some" <=> it'.cursor = it.cursor + 1
        /\ lastRet' = "Some" <=> Len(out') = Len(out) + 1
        /\ it.cursor >= Len(it.string) =>
              (lastRet' = "None" /\ it' = it /\ out' = out /\ ipc' = ipc)

KernScale == scale_for_pixel_height(font, it.api_scale[2]) * (it.api_scale[1] \div it.api_scale[2])

\* The pairs of glyphs whose kerning value the second table changes.
ChangedPairs == {p \in DOMAIN kernAlt : kernAlt[p] # font.kern[p]}

\* C6: the k-th advance, k >= 2, is advance_width(glyph_k) * scale_x plus
\* the scaled kerning of (glyph_{k-1}, glyph_k), glyph_{k-1} being the glyph
\* the preceding step yielded.  Changing the kerning value of one pair
\* (a, b) changes the advances of exactly the glyphs b that directly follow
\* an a, and no other advance.
C6_KerningOfPrecedingPair ==
    ipc \in {"active", "panic"} =>
        /\ \A k \in 2..Len(out) :
              /\ out[k].adv = font.adv[out[k].glyph.id] * ScaleX
                              + KernScale * font.kern[<<out[k - 1].glyph.id, out[k].glyph.id>>]
              /\ kernLog[k - 1] = <<out[k - 1].glyph.id, out[k].glyph.id>>
        /\ Len(kernLog) = IF Len(out) = 0 THEN 0 ELSE Len(out) - 1
        /\ Len(outAlt) = Len(out)
        /\ \A k \in 1..Len(out) :
              outAlt[k] # out[k].adv <=>
                  (k >= 2 /\ <<out[k - 1].glyph.id, out[k].glyph.id>> \in ChangedPairs)

\* Three glyphs were yielded; the changed pair is the first two, so the
\* second advance differs under the second table and the third does not.
C6_Witness ==
    /\ Len(out) = 3
    /\ outAlt[1] = out[1].adv
    /\ outAlt[2] # out[2].adv
    /\ outAlt[3] = out[3].adv
    /\ it.scale[1] # it.scale[2]

\* C9: every Glyph that exists carries an identifier below glyph_count of
\* its font; an identifier that is not makes Font::glyph abort: no Glyph
\* and no error value is returned.
C9_GlyphIdsInRange ==
    /\ \A k \in 1..Len(out) : out[k].glyph.id \in 0..(glyph_count(font) - 1)
    /\ it.last.some => it.last.v.id \in 0..(glyph_count(font) - 1)
    /\ \A k \in 1..Len(kernLog) :
          kernLog[k][1] < glyph_count(font) /\ kernLog[k][2] < glyph_count(font)
    /\ ipc = "panic" <=> lastRet = "Panic"
    /\ (ipc = "active" /\ it.cursor < Len(it.string) /\ lastRet # "none") =>
          IdAt(it.cursor + 1) < glyph_count(font) \/ lastRet = "Some"
    /\ ipc = "panic" =>
          /\ it.cursor < Len(it.string)
          /\ IdAt(it.cursor + 1) >= glyph_count(font)
    /\ \A k \in 1..Len(out) : IdAt(k) < glyph_count(font)

\* The second character resolved to an identifier the font does not hold:
\* next aborted after yielding one glyph.
C9_Witness ==
    /\ ipc = "panic"
    /\ Len(out) = 1
    /\ IdAt(2) >= glyph_count(font)

\* ------------------------------------------------- claims: draw

IsClose(op) == op.op \in {"LineClose", "QuadClose"}

\* C7: a non-empty path starts with MoveTo; a close is never the first
\* operation of the path and never directly follows another close.
C7_ClosesOnlyTerminate ==
    drawn.status = "ok" =>
        LET p == drawn.path
        IN  /\ p # <<>> => p[1].op = "MoveTo"
            /\ \A k \in 1..Len(p) : IsClose(p[k]) => (k > 1 /\ ~IsClose(p[k - 1]))

\* The point the baseline offset moves point_y to.
Baseline == drawn.point_y + glyph.ascent * glyph.v[2]

\* The device coordinates of the end point of the k-th vertex, as draw
\* transforms them.
EndPoint(k) ==
    <<DeviceX(glyph, ShapeOf(glyph)[k].x, drawn.point_x),
      DeviceY(glyph, ShapeOf(glyph)[k].y, Baseline, drawn.build)>>

CtrlPoint(k) ==
    <<DeviceX(glyph, ShapeOf(glyph)[k].cx, drawn.point_x),
      DeviceY(glyph, ShapeOf(glyph)[k].cy, Baseline, drawn.build)>>

\* The target of the most recent MoveTo vertex before the k-th vertex,
\* (0, 0) when there is none.
OriginBefore(k) ==
    LET moves == {j \in 1..(k - 1) : ShapeOf(glyph)[j].type = "MoveTo"}
    IN  IF moves = {}
        THEN <<0, 0>>
        ELSE EndPoint(CHOOSE j \in moves : \A i \in moves : i <= j)

\* The outline [MoveTo(0,0), LineTo(10,0), LineTo(10,10), LineTo(0,0)].
SquareCorner ==
    <<Vertex("MoveTo", 0, 0, 0, 0), Vertex("LineTo", 10, 0, 0, 0),
      Vertex("LineTo", 10, 10, 0, 0), Vertex("LineTo", 0, 0, 0, 0)>>

C10_YFlipExact ==
    dpc = "done" =>
        /\ drawn.status = "ok"
        /\ \A k \in 1..Len(drawn.path) :
              LET v == ShapeOf(glyph)[k]
                  op == drawn.path[k]
                  x == v.x * glyph.v[1] + drawn.point_x
                  y == (0 - v.y) * glyph.v[2] + Baseline
                  cx == v.cx * glyph.v[1] + drawn.point_x
                  cy == (0 - v.cy) * glyph.v[2] + Baseline
              IN  /\ op.op \in {"MoveTo", "LineTo", "QuadTo"} => (op.x = x /\ op.y = y)
                  /\ op.op \in {"QuadTo", "QuadClose"} => (op.cx = cx /\ op.cy = cy)

\* The kind of path operation a vertex of each type may become.
OpsOfVertex(t) ==
    CASE t = "MoveTo" -> {"MoveTo"}
      [] t = "LineTo" -> {"LineTo", "LineClose"}
      [] t = "CurveTo" -> {"QuadTo", "QuadClose"}

\* What C11 says of a path p that draw returned: one operation per vertex,
\* in the order of the vertices; the empty path for an absent or empty
\* outline; the baseline offset ascent * scale_y in every y, once.
OnePerVertex(p) ==
    LET shape == ShapeOf(glyph)
    IN  /\ Len(p) = Len(shape)
        /\ \A k \in 1..Len(p) : k <= Len(shape) =>
              /\ p[k].op \in OpsOfVertex(shape[k].type)
              /\ p[k].op \in {"MoveTo", "LineTo", "QuadTo"} =>
                    p[k].y - NegI16(shape[k].y, "release").v * glyph.v[2] - drawn.point_y
                        = glyph.ascent * glyph.v[2]
              /\ p[k].op \in {"QuadTo", "QuadClose"} =>
                    p[k].cy - NegI16(shape[k].cy, "release").v * glyph.v[2] - drawn.point_y
                        = glyph.ascent * glyph.v[2]
        /\ (~glyph.shape.some \/ shape = <<>>) => p = <<>>

\* C11: draw emits exactly one path operation per outline vertex, in the
\* order of the vertices (MoveTo -> MoveTo; LineTo -> LineTo or LineClose;
\* CurveTo -> QuadTo or QuadClose), so the path is as long as the outline;
\* an absent or empty outline yields the empty path; ascent * scale_y is
\* added to point_y exactly once per call, whatever the number of vertices.
C11_OneOpPerVertex ==
    dpc = "done" => (drawn.status = "ok" /\ OnePerVertex(drawn.path))

\* C11, for the calls of draw that return: the part of the claim the code
\* keeps (every call returns unless a vertex has y or cy = -32768 in a
\* build that checks overflow).
C11_WhenDrawReturns ==
    (dpc = "done" /\ drawn.status = "ok") => OnePerVertex(drawn.path)

====
